---- MODULE Spec2Model ----
(***************************************************************************)
(* State-machine model of the MCP tool scanner:                            *)
(*   source_code/scan_code.py   ToolAnalyzer (audit, report, batch), main  *)
(*   source_code/parse_python.py  extract_tools (seen here by its result)  *)
(*                                                                         *)
(* The main thread walks  main -> analyze_repos -> analyze_repo ; the     *)
(* worker threads of the ThreadPoolExecutor run analyze_tool_with_llm.     *)
(***************************************************************************)
EXTENDS Integers, Sequences, FiniteSets, TLC

(***************************************************************************)
(* Bounds of the model.                                                    *)
(***************************************************************************)
\* most tool functions in one repository (general scenarios)
MaxTools == 2
\* most candidate files in one repository
MaxFiles == 2
\* most rows of a manifest, and number of repositories on disk
MaxRepos == 2
\* resolution of random.uniform(0, 1): ticks per second
JitterSteps == 2
\* most runs of the program over the same disk
MaxRuns == 2
\* most function definitions in one parsed file
MaxFuncs == 2
\* deepest nesting of a decorator expression (a bare name has depth 0)
MaxDepth == 3
\* most parameters of one function definition
MaxParams == 2

(***************************************************************************)
(* Constants of the program.                                               *)
(***************************************************************************)
\* scan_code.py:143
max_retries == 3
\* scan_code.py:145
backoff_factor == 2
\* scan_code.py:222, the literal in min(10, len(all_tools)+1)
maxConcurrency == 10

Min(a, b) == IF a <= b THEN a ELSE b

RECURSIVE Pow(_, _)
Pow(b, n) == IF n = 0 THEN 1 ELSE b * Pow(b, n - 1)

\* all sequences over S of length 0..n
SeqsUpTo(S, n) == UNION {[1..k -> S] : k \in 0..n}

Repos == 1..MaxRepos

(***************************************************************************)
(* What the completion client can answer: response text that is a JSON    *)
(* object or is not, or an exception of some kind.                         *)
(***************************************************************************)
Responses == {"json_object", "not_json"}
Errors == {"network", "rate_limit"}

(***************************************************************************)
(* The value of tool_info["analysis"].                                     *)
(***************************************************************************)
NoAnalysis == [kind |-> "absent", n |-> 0, text |-> ""]
\* scan_code.py:158-161  analysis = response.choices[0].message.content
SuccessAnalysis(response) == [kind |-> "response", n |-> 0, text |-> response]
\* scan_code.py:175  f"Error during analysis after {max_retries} attempts: {str(e)}"
ErrorAnalysis(e) ==
    [kind |-> "Error during analysis after n attempts: ", n |-> max_retries, text |-> e]
\* scan_code.py:186  f"Failed to analyze after {max_retries} attempts"
FallthroughAnalysis ==
    [kind |-> "Failed to analyze after n attempts", n |-> max_retries, text |-> ""]

(***************************************************************************)
(* Files of a repository, as extract_tools sees them: a file that does not *)
(* parse (ast.parse raises), or one holding ntools marked functions.       *)
(***************************************************************************)
FileKinds ==
    {[parses |-> FALSE, ntools |-> 0]} \cup {[parses |-> TRUE, ntools |-> k] : k \in 0..MaxTools}

RECURSIVE ToolsIn(_)
ToolsIn(files) ==
    IF files = <<>> THEN 0 ELSE Head(files).ntools + ToolsIn(Tail(files))

Layouts == {l \in SeqsUpTo(FileKinds, MaxFiles) : ToolsIn(l) <= MaxTools}

\* the repositories of no file or of one file that parses
SingleFileLayouts == {l \in Layouts : Len(l) <= 1 /\ \A f \in 1..Len(l) : l[f].parses}

\* parse_python.py:114-125  the records extract_tools returns for a file that parses
extract_tools(file) == [k \in 1..file.ntools |-> [line_number |-> k]]

\* scan_code.py:211-212  tool["file_path"] = os.path.relpath(file_path, repo_path)
WithFilePath(tools, f) ==
    [k \in 1..Len(tools) |-> [file_path |-> f, line_number |-> tools[k].line_number]]

(***************************************************************************)
(* A worker's task: one call of analyze_tool_with_llm on all_tools[i].     *)
(*   st          unsubmitted, queued (in the executor's work queue),       *)
(*               calling (client call in flight), sleeping (time.sleep),   *)
(*               returned / raised (the future is done)                    *)
(*   retry_count the local of analyze_tool_with_llm                        *)
(*   sleep_time  the running time.sleep, in ticks (0 when not sleeping)    *)
(*   calls       client calls made so far for this record                  *)
(*   waits       the base 2^retry_count of every sleep so far, in seconds  *)
(*   analysis    tool_info["analysis"]                                     *)
(*   starts      times a worker thread entered the function for the record *)
(*   replies     what the client answered to the record's calls, in order, *)
(*               when the client is a fake that keeps a log                *)
(*   done_at     the rank of the future among the futures done (0: not     *)
(*               done): 1 for the future that was done first               *)
(***************************************************************************)
NewTask ==
    [st |-> "unsubmitted", retry_count |-> 0, sleep_time |-> 0, calls |-> 0,
     waits |-> <<>>, analysis |-> NoAnalysis, starts |-> 0, replies |-> <<>>,
     done_at |-> 0]

NoReport == [kind |-> "none", repo_name |-> 0, tools_count |-> 0, tools |-> <<>>]

VARIABLES
    args,               \* main: the parsed command line
    pc,                 \* position of the main thread
    exc,                \* the exception that left the program, "" if none
    printed,            \* messages main / analyze_repos printed unconditionally
    client,             \* behaviour of the completion client (environment)
    llm_calls,          \* calls of client.chat.completions.create so far
    extract_calls,      \* calls of extract_tools so far
    \* ---- the disk
    repo_files,         \* repository -> its candidate files
    artifact,           \* repository -> <repo>_tools.json
    \* ---- analyze_repos
    csv_file,           \* the manifest
    row_idx,            \* rows of the manifest read so far
    repo_paths,         \* read_repos_from_csv: repo_paths
    repo_idx,           \* entries of repo_paths the for loop has finished
    skipped,            \* entries of repo_paths the for loop skipped
    write_log,          \* every attempt to write an artifact: <<repository, outcome>>
    \* ---- analyze_repo
    repo_path,          \* the repository being analysed (0: none)
    file_idx,           \* files of code_files handled so far
    all_tools,          \* all_tools
    worker_count,       \* worker_count
    tasks,              \* task i: analyze_tool_with_llm(all_tools[i])
    finished_set,       \* as_completed: futures already done when it was called
    finished_futures,   \* as_completed: futures done since, in completion order
    analyzed_tools,     \* analyzed_tools, as indices into all_tools
    result,             \* the report analyze_repo returned last
    \* ---- the user
    run,                \* the number of this run of the program
    \* ---- extract_tool_functions (parse_python.py)
    source_code,        \* self.source_code: the text of the file
    source_file,        \* the function definitions of the parsed file, in source order
    walk_idx,           \* nodes of ast.walk(tree) handled so far
    tool_functions,     \* tool_functions
    examined            \* per node handled: the decorators _is_mcp_tool_decorator saw

diskVars == <<repo_files, artifact>>
batchVars == <<csv_file, row_idx, repo_paths, repo_idx, skipped, write_log>>
auditVars == <<repo_path, file_idx, all_tools, worker_count, tasks, finished_set,
               finished_futures, analyzed_tools, result>>
envVars == <<args, client>>
parseVars == <<source_code, source_file, walk_idx, tool_functions, examined>>
vars == <<args, pc, exc, printed, client, llm_calls, extract_calls, repo_files, artifact,
          csv_file, row_idx, repo_paths, repo_idx, skipped, write_log, repo_path,
          file_idx,
          all_tools, worker_count, tasks, finished_set, finished_futures,
          analyzed_tools, result, run, source_code, source_file, walk_idx,
          tool_functions, examined>>

(***************************************************************************)
(* main                                                    scan_code.py    *)
(***************************************************************************)
\* scan_code.py:344-366
Main ==
    /\ pc = "main"
    /\ IF args.repo # 0 /\ args.csv
         THEN /\ printed' = printed \cup {"Error: Cannot specify both --repo and --csv options"}
              /\ pc' = "done"
              /\ UNCHANGED repo_path
         ELSE /\ printed' = printed
              /\ IF args.repo # 0
                   THEN pc' = "analyze_repo" /\ repo_path' = args.repo
                   ELSE IF args.csv
                        THEN pc' = "analyze_repos" /\ UNCHANGED repo_path
                        ELSE pc' = "done" /\ UNCHANGED repo_path
    /\ UNCHANGED <<exc, llm_calls, extract_calls, envVars, diskVars, batchVars, file_idx,
                   all_tools, worker_count, tasks, finished_set, finished_futures,
                   analyzed_tools, result, run, parseVars>>

(***************************************************************************)
(* analyze_repo: extraction                                                *)
(***************************************************************************)
\* scan_code.py:202  code_files = self.get_code_files(repo_path, language)
code_files == repo_files[repo_path]

\* scan_code.py:202-205
AnalyzeRepoEnter ==
    /\ pc = "analyze_repo"
    /\ file_idx' = 0
    /\ all_tools' = <<>>
    /\ pc' = "extract"
    /\ UNCHANGED <<exc, printed, llm_calls, extract_calls, envVars, diskVars, batchVars,
                   repo_path, worker_count, tasks, finished_set, finished_futures,
                   analyzed_tools, result, run, parseVars>>

\* a slip in the handler of l.214: the list built so far is lost with the file
ExtractedLosingList(tools_so_far, file, f) ==
    IF file.parses THEN tools_so_far \o WithFilePath(extract_tools(file), f) ELSE <<>>

\* scan_code.py:207-216  all_tools after the turn for file number f: extended by the
\* file's records, or left alone when extract_tools raised
Extracted(tools_so_far, file, f) ==
    IF file.parses THEN tools_so_far \o WithFilePath(extract_tools(file), f) ELSE tools_so_far

\* scan_code.py:206-216  one turn of  for file_path in code_files
ExtractFile ==
    /\ pc = "extract"
    /\ file_idx < Len(code_files)
    /\ LET f == file_idx + 1
           file == code_files[f]
       IN  /\ extract_calls' = extract_calls + 1
           /\ all_tools' = Extracted(all_tools, file, f)
           /\ file_idx' = f
    /\ UNCHANGED <<pc, exc, printed, llm_calls, envVars, diskVars, batchVars, repo_path,
                   worker_count, tasks, finished_set, finished_futures, analyzed_tools,
                   result, run, parseVars>>

(***************************************************************************)
(* analyze_repo: the worker pool                                           *)
(***************************************************************************)
\* a pool as wide as the list: the cap of l.222 forgotten
WorkerCountUncapped(n) == n + 1

\* scan_code.py:222
WorkerCount(n) == Min(maxConcurrency, n + 1)

\* scan_code.py:222-223  ThreadPoolExecutor(worker_count)
CreatePool ==
    /\ pc = "extract"
    /\ file_idx = Len(code_files)
    /\ worker_count' = WorkerCount(Len(all_tools))
    /\ tasks' = [i \in 1..Len(all_tools) |-> NewTask]
    /\ finished_set' = {}
    /\ finished_futures' = <<>>
    /\ analyzed_tools' = <<>>
    /\ pc' = "submit"
    /\ UNCHANGED <<exc, printed, llm_calls, extract_calls, envVars, diskVars, batchVars,
                   repo_path, file_idx, all_tools, result, run, parseVars>>

TaskIds == DOMAIN tasks
Done(i) == tasks[i].st \in {"returned", "raised"}
InFlight == {i \in TaskIds : tasks[i].st = "calling"}
Busy == {i \in TaskIds : tasks[i].st \in {"calling", "sleeping"}}
Queued == {i \in TaskIds : tasks[i].st = "queued"}
Unsubmitted == {i \in TaskIds : tasks[i].st = "unsubmitted"}
SetMin(S) == CHOOSE x \in S : \A y \in S : x <= y

\* scan_code.py:225-228  executor.submit(self.analyze_tool_with_llm, tool), in list order
Submit ==
    /\ pc = "submit"
    /\ Unsubmitted # {}
    /\ tasks' = [tasks EXCEPT ![SetMin(Unsubmitted)].st = "queued"]
    /\ UNCHANGED <<pc, exc, printed, llm_calls, extract_calls, envVars, diskVars, batchVars,
                   repo_path, file_idx, all_tools, worker_count, finished_set,
                   finished_futures, analyzed_tools, result, run, parseVars>>

\* scan_code.py:231-232  analyzed_tools = [] ; as_completed(future_to_tool) is entered:
\* the futures done by now are yielded first, in the order of a set
AsCompleted ==
    /\ pc = "submit"
    /\ Unsubmitted = {}
    /\ analyzed_tools' = <<>>
    /\ finished_set' = {i \in TaskIds : Done(i)}
    /\ finished_futures' = <<>>
    /\ pc' = "collect"
    /\ UNCHANGED <<exc, printed, llm_calls, extract_calls, envVars, diskVars, batchVars,
                   repo_path, file_idx, all_tools, worker_count, tasks, result, run,
                   parseVars>>

PoolRunning == pc \in {"submit", "collect"}

\* the future of task i becomes done: as_completed's waiter notes it once it runs
FutureDone(i) == IF pc = "collect" THEN Append(finished_futures, i) ELSE finished_futures

\* the future of a task is set done: it is the next in the order of completion
Finished(task) ==
    [task EXCEPT !.done_at = Cardinality({j \in DOMAIN tasks : Done(j)}) + 1]

\* the client has answered the call of a task, with a response text or an exception:
\* a fake client that keeps a log notes the answer
Replied(task, answer) ==
    IF client.logs THEN [task EXCEPT !.replies = Append(@, answer)] ELSE task

\* the fake client's own bookkeeping of the calls it holds
ClientTakes(i) ==
    IF client.latency = "uniform" THEN [client EXCEPT !.pending = Append(@, i)] ELSE client
ClientMayAnswer(i) ==
    client.latency = "uniform" => (pc = "collect" /\ client.pending # <<>> /\ Head(client.pending) = i)
ClientAnswered(failed) ==
    [client EXCEPT !.pending = IF client.latency = "uniform" THEN Tail(@) ELSE @,
                   !.failures_left = IF failed /\ @ > 0 THEN @ - 1 ELSE @]

(***************************************************************************)
(* analyze_tool_with_llm, run by a worker thread                           *)
(***************************************************************************)
\* scan_code.py:147  while retry_count < max_retries
LoopContinues(retry_count) == retry_count < max_retries

\* the test of l.173 off by one: gives up one attempt early
IsLastRetryEarly(retry_count) == retry_count = max_retries - 2

\* a handler without the test of l.173: every failure is followed by a sleep
IsLastRetryNever(retry_count) == FALSE

\* scan_code.py:173  if retry_count == max_retries - 1
IsLastRetry(retry_count) == retry_count = max_retries - 1

\* the exponent of l.180 taken before retry_count is incremented
BackoffBaseFromZero(retry_count) == Pow(backoff_factor, retry_count - 1)

\* scan_code.py:180  (backoff_factor ** retry_count), in seconds
BackoffBase(retry_count) == Pow(backoff_factor, retry_count)

\* scan_code.py:180  sleep_time, in ticks; jitter is random.uniform(0, 1) in ticks
SleepTime(retry_count, jitter) == BackoffBase(retry_count) * JitterSteps + jitter

\* the last failure re-raised instead of returned: the future ends with the exception
LastFailureRaised(task, e) == [task EXCEPT !.st = "raised"]

\* the message built from the first exception the record met (kept by the client's
\* log), not from the one just caught
LastFailureFirstError(task, e) ==
    [task EXCEPT !.st = "returned", !.analysis = ErrorAnalysis(task.replies[1])]

\* scan_code.py:173-176  the last failure: the message is stored and tool_info returned
LastFailure(task, e) == [task EXCEPT !.st = "returned", !.analysis = ErrorAnalysis(e)]

\* a response gated by is_valid_json: text that is no JSON counts as a failed attempt
SucceededIfJson(task, response) ==
    IF response = "json_object"
    THEN [task EXCEPT !.st = "returned", !.analysis = SuccessAnalysis(response)]
    ELSE [task EXCEPT !.st = "sleeping", !.retry_count = @ + 1,
                      !.sleep_time = SleepTime(task.retry_count + 1, 0),
                      !.waits = Append(@, BackoffBase(task.retry_count + 1))]

\* scan_code.py:157-166  a response: the text is stored and tool_info returned
Succeeded(task, response) ==
    [task EXCEPT !.st = "returned", !.analysis = SuccessAnalysis(response)]

\* a free worker thread takes the oldest queued task and enters the function:
\* scan_code.py:143-155, up to the first client call
StartTask(i) ==
    /\ PoolRunning
    /\ Queued # {} /\ i = SetMin(Queued)
    /\ Cardinality(Busy) < worker_count
    /\ LoopContinues(0)
    /\ tasks' = [tasks EXCEPT ![i].st = "calling", ![i].retry_count = 0,
                               ![i].calls = @ + 1, ![i].starts = @ + 1]
    /\ llm_calls' = llm_calls + 1
    /\ client' = ClientTakes(i)
    /\ UNCHANGED <<args, pc, exc, printed, extract_calls, diskVars, batchVars, repo_path,
                   file_idx, all_tools, worker_count, finished_set, finished_futures,
                   analyzed_tools, result, run, parseVars>>

\* scan_code.py:150-166  the call returns
CallReturns(i, response) ==
    /\ PoolRunning
    /\ tasks[i].st = "calling"
    /\ ClientMayAnswer(i)
    /\ response \in client.responses
    /\ tasks' = [tasks EXCEPT ![i] = Finished(Succeeded(Replied(@, response), response))]
    /\ finished_futures' = FutureDone(i)
    /\ client' = ClientAnswered(FALSE)
    /\ UNCHANGED <<args, pc, exc, printed, llm_calls, extract_calls, diskVars, batchVars,
                   repo_path, file_idx, all_tools, worker_count, finished_set,
                   analyzed_tools, result, run, parseVars>>

\* scan_code.py:168-183  the call raises: give up, or count the retry and sleep
CallRaises(i, e, jitter) ==
    /\ PoolRunning
    /\ tasks[i].st = "calling"
    /\ ClientMayAnswer(i)
    /\ client.failures_left # 0
    /\ e \in client.errors
    /\ IF IsLastRetry(tasks[i].retry_count)
         THEN /\ jitter = 0
              /\ tasks' = [tasks EXCEPT ![i] = Finished(LastFailure(Replied(@, e), e))]
              /\ finished_futures' = FutureDone(i)
         ELSE /\ LET rc == tasks[i].retry_count + 1
                 IN  tasks' = [tasks EXCEPT ![i].st = "sleeping", ![i].retry_count = rc,
                                            ![i].sleep_time = SleepTime(rc, jitter),
                                            ![i].waits = Append(@, BackoffBase(rc)),
                                            ![i].replies = Replied(tasks[i], e).replies]
              /\ UNCHANGED finished_futures
    /\ client' = ClientAnswered(TRUE)
    /\ UNCHANGED <<args, pc, exc, printed, llm_calls, extract_calls, diskVars, batchVars,
                   repo_path, file_idx, all_tools, worker_count, finished_set,
                   analyzed_tools, result, run, parseVars>>

\* scan_code.py:183, 147-155  time.sleep returns; the loop test; the next client call
WakeUp(i) ==
    /\ PoolRunning
    /\ tasks[i].st = "sleeping"
    /\ IF LoopContinues(tasks[i].retry_count)
         THEN /\ tasks' = [tasks EXCEPT ![i].st = "calling", ![i].sleep_time = 0,
                                         ![i].calls = @ + 1]
              /\ llm_calls' = llm_calls + 1
              /\ client' = ClientTakes(i)
              /\ UNCHANGED finished_futures
         ELSE \* scan_code.py:185-187
              /\ tasks' = [tasks EXCEPT ![i] =
                              Finished([@ EXCEPT !.st = "returned", !.sleep_time = 0,
                                                 !.analysis = FallthroughAnalysis])]
              /\ finished_futures' = FutureDone(i)
              /\ UNCHANGED <<llm_calls, client>>
    /\ UNCHANGED <<args, pc, exc, printed, extract_calls, diskVars, batchVars, repo_path,
                   file_idx, all_tools, worker_count, finished_set, analyzed_tools, result,
                   run, parseVars>>

(***************************************************************************)
(* analyze_repo: collection and the report                                 *)
(***************************************************************************)
\* a collector that keeps the successful analyses only
CollectedSuccessesOnly(i) ==
    IF tasks[i].st = "returned" /\ tasks[i].analysis.kind = "response"
    THEN Append(analyzed_tools, i) ELSE analyzed_tools

\* scan_code.py:233-241  the body of  for future in as_completed(...)
Collected(i) ==
    IF tasks[i].st = "returned" THEN Append(analyzed_tools, i) ELSE analyzed_tools

\* scan_code.py:232-241  one turn of the loop
Collect ==
    /\ pc = "collect"
    /\ IF finished_set # {}
         THEN \E i \in finished_set :
                 /\ finished_set' = finished_set \ {i}
                 /\ analyzed_tools' = Collected(i)
                 /\ UNCHANGED finished_futures
         ELSE /\ finished_futures # <<>>
              /\ finished_futures' = Tail(finished_futures)
              /\ analyzed_tools' = Collected(Head(finished_futures))
              /\ UNCHANGED finished_set
    /\ UNCHANGED <<pc, exc, printed, llm_calls, extract_calls, envVars, diskVars, batchVars,
                   repo_path, file_idx, all_tools, worker_count, tasks, result, run,
                   parseVars>>

\* every entry given the analysis of the first record: one dictionary shared by all
ToolEntryShared(i) ==
    [file_path |-> all_tools[i].file_path, line_number |-> all_tools[i].line_number,
     analysis |-> tasks[1].analysis]

\* the tool dictionaries analyzed_tools holds
ToolEntry(i) ==
    [file_path |-> all_tools[i].file_path, line_number |-> all_tools[i].line_number,
     analysis |-> tasks[i].analysis]

\* a report that counts the successful analyses only
BuildReportCountingSuccesses(repo, analyzed) ==
    [kind |-> "report", repo_name |-> repo,
     tools_count |-> Cardinality({k \in 1..Len(analyzed) :
                                     tasks[analyzed[k]].analysis.kind = "response"}),
     tools |-> [k \in 1..Len(analyzed) |-> ToolEntry(analyzed[k])]]

\* scan_code.py:244-248
BuildReport(repo, analyzed) ==
    [kind |-> "report", repo_name |-> repo, tools_count |-> Len(analyzed),
     tools |-> [k \in 1..Len(analyzed) |-> ToolEntry(analyzed[k])]]

\* a loop that ends as soon as no finished future waits, whatever still runs
AllYieldedSoFar ==
    /\ finished_set = {}
    /\ finished_futures = <<>>

\* scan_code.py:232, 223  as_completed is exhausted: every future is done and yielded
AllYielded ==
    /\ \A i \in TaskIds : Done(i)
    /\ finished_set = {}
    /\ finished_futures = <<>>

\* scan_code.py:232, 223, 243-251  as_completed is exhausted, the executor shuts down,
\* the report is built and returned to main (which drops it) or to analyze_repos
ReturnReport ==
    /\ pc = "collect"
    /\ AllYielded
    /\ result' = BuildReport(repo_path, analyzed_tools)
    /\ pc' = IF args.repo # 0 THEN "done" ELSE "persist"
    /\ UNCHANGED <<exc, printed, llm_calls, extract_calls, envVars, diskVars, batchVars,
                   repo_path, file_idx, all_tools, worker_count, tasks, finished_set,
                   finished_futures, analyzed_tools, run, parseVars>>

(***************************************************************************)
(* analyze_repos: the manifest                                             *)
(***************************************************************************)
\* a row of the manifest, by what read_repos_from_csv tests of it:
\*   cols     'username' and 'repo_name' are columns of the row   (l.271)
\*   lang_ok  the row passes the language filter                  (l.277-279)
\*   isdir    mcp_repos/<username>_<repo_name> is a directory     (l.286)
\*   repo     that directory
GoodRow(r) == [cols |-> TRUE, lang_ok |-> TRUE, isdir |-> TRUE, repo |-> r]
RowKinds ==
    {GoodRow(r) : r \in Repos} \cup
    {[GoodRow(1) EXCEPT !.cols = FALSE], [GoodRow(1) EXCEPT !.lang_ok = FALSE],
     [GoodRow(1) EXCEPT !.isdir = FALSE]}

\* scan_code.py:271-287  what one row adds to repo_paths
RowAdds(row) == IF row.cols /\ row.lang_ok /\ row.isdir THEN <<row.repo>> ELSE <<>>

\* scan_code.py:311-315
AnalyzeReposEnter ==
    /\ pc = "analyze_repos"
    /\ IF ~csv_file.isfile
         THEN /\ printed' = printed \cup {"Error: CSV file does not exist"}
              /\ pc' = "done"
         ELSE /\ printed' = printed
              /\ pc' = "read_csv"
    /\ row_idx' = 0
    /\ repo_paths' = <<>>
    /\ UNCHANGED <<exc, llm_calls, extract_calls, envVars, diskVars, csv_file, repo_idx,
                   skipped, write_log, auditVars, run, parseVars>>

\* the manifest raises now: opening it, or fetching the next row
ManifestRaises == csv_file.fail_at = row_idx + 1

\* scan_code.py:269-289  one turn of  for row in reader
ReadRow ==
    /\ pc = "read_csv"
    /\ ~ManifestRaises
    /\ row_idx < Len(csv_file.rows)
    /\ row_idx' = row_idx + 1
    /\ repo_paths' = repo_paths \o RowAdds(csv_file.rows[row_idx + 1])
    /\ UNCHANGED <<pc, exc, printed, llm_calls, extract_calls, envVars, diskVars, csv_file,
                   repo_idx, skipped, write_log, auditVars, run, parseVars>>

\* scan_code.py:317-319  back in analyze_repos with the list read_repos_from_csv returned
AfterRead(paths) == IF paths = <<>> THEN "done" ELSE "repos_loop"

\* scan_code.py:296-300  an exception while reading: caught, repo_paths is returned as
\* it stands
ReadFails ==
    /\ pc = "read_csv"
    /\ ManifestRaises
    /\ pc' = AfterRead(repo_paths)
    /\ printed' = IF pc' = "done" THEN printed \cup {"No repositories found"} ELSE printed
    /\ repo_idx' = 0
    /\ UNCHANGED <<exc, llm_calls, extract_calls, envVars, diskVars, csv_file, row_idx,
                   repo_paths, skipped, write_log, auditVars, run, parseVars>>

\* scan_code.py:269, 300  the reader is exhausted: repo_paths is returned
ReadEnds ==
    /\ pc = "read_csv"
    /\ ~ManifestRaises
    /\ row_idx = Len(csv_file.rows)
    /\ pc' = AfterRead(repo_paths)
    /\ printed' = IF pc' = "done" THEN printed \cup {"No repositories found"} ELSE printed
    /\ repo_idx' = 0
    /\ UNCHANGED <<exc, llm_calls, extract_calls, envVars, diskVars, csv_file, row_idx,
                   repo_paths, skipped, write_log, auditVars, run, parseVars>>

(***************************************************************************)
(* analyze_repos: the loop over the repositories                           *)
(***************************************************************************)
\* a test that takes the artifacts of earlier runs only for finished work
AlreadyAnalyzedBefore(r) ==
    artifact[r].exists /\ artifact[r].content.kind = "earlier run"

\* the test of l.323 left out
AlreadyAnalyzedNever(r) == FALSE

\* scan_code.py:322-323  os.path.exists(f"{repo_path}_tools.json")
AlreadyAnalyzed(r) == artifact[r].exists

\* scan_code.py:321-325  the entry's artifact exists: continue
SkipRepo ==
    /\ pc = "repos_loop"
    /\ repo_idx < Len(repo_paths)
    /\ AlreadyAnalyzed(repo_paths[repo_idx + 1])
    /\ printed' = printed \cup {"Skipping analysis (already analyzed)"}
    /\ skipped' = skipped \cup {repo_idx + 1}
    /\ repo_idx' = repo_idx + 1
    /\ UNCHANGED <<pc, exc, llm_calls, extract_calls, envVars, diskVars, csv_file, row_idx,
                   repo_paths, write_log, auditVars, run, parseVars>>

\* scan_code.py:321-327  no artifact: result = self.analyze_repo(repo_path)
StartRepo ==
    /\ pc = "repos_loop"
    /\ repo_idx < Len(repo_paths)
    /\ ~AlreadyAnalyzed(repo_paths[repo_idx + 1])
    /\ repo_path' = repo_paths[repo_idx + 1]
    /\ pc' = "analyze_repo"
    /\ UNCHANGED <<exc, printed, llm_calls, extract_calls, envVars, diskVars, batchVars,
                   file_idx, all_tools, worker_count, tasks, finished_set, finished_futures,
                   analyzed_tools, result, run, parseVars>>

\* scan_code.py:321  the list is exhausted: analyze_repos returns
LoopEnds ==
    /\ pc = "repos_loop"
    /\ repo_idx = Len(repo_paths)
    /\ pc' = "done"
    /\ UNCHANGED <<exc, printed, llm_calls, extract_calls, envVars, diskVars, batchVars,
                   auditVars, run, parseVars>>

(***************************************************************************)
(* analyze_repos: the artifact                                             *)
(***************************************************************************)
NoArtifact == [exists |-> FALSE, content |-> NoReport]
\* an artifact of an earlier run
OldArtifact == [exists |-> TRUE, content |-> [NoReport EXCEPT !.kind = "earlier run"]]
\* scan_code.py:330  open(analysis_file, 'w') has created or truncated the file and
\* json.dump has not finished
PartialArtifact == [exists |-> TRUE, content |-> [NoReport EXCEPT !.kind = "partial"]]
\* scan_code.py:330-331  the whole report is in the file
WrittenArtifact(report) == [exists |-> TRUE, content |-> report]

\* a write wrapped in try/except that logs and goes on with the next repository
WriteFailureSwallowed == [pc |-> "repos_loop", exc |-> ""]

\* scan_code.py:330-331  an exception of the with block leaves analyze_repos: nothing
\* catches it there or in main
WriteFailure == [pc |-> "raised", exc |-> "OSError"]

\* scan_code.py:330-334  the report is written; the loop goes on
PersistOk ==
    /\ pc = "persist"
    /\ artifact' = [artifact EXCEPT ![repo_path] = WrittenArtifact(result)]
    /\ write_log' = Append(write_log, <<repo_path, "written">>)
    /\ repo_idx' = repo_idx + 1
    /\ pc' = "repos_loop"
    /\ UNCHANGED <<exc, printed, llm_calls, extract_calls, envVars, repo_files, csv_file,
                   row_idx, repo_paths, skipped, auditVars, run, parseVars>>

\* scan_code.py:330  open raises: no file is created
PersistOpenFails ==
    /\ pc = "persist"
    /\ write_log' = Append(write_log, <<repo_path, "open failed">>)
    /\ pc' = WriteFailure.pc
    /\ exc' = WriteFailure.exc
    /\ IF pc' = "repos_loop" THEN repo_idx' = repo_idx + 1 ELSE UNCHANGED repo_idx
    /\ UNCHANGED <<printed, llm_calls, extract_calls, envVars, diskVars, csv_file, row_idx,
                   repo_paths, skipped, auditVars, run, parseVars>>

\* scan_code.py:331  json.dump raises while writing: the file open created stays
PersistDumpFails ==
    /\ pc = "persist"
    /\ artifact' = [artifact EXCEPT ![repo_path] = PartialArtifact]
    /\ write_log' = Append(write_log, <<repo_path, "dump failed">>)
    /\ pc' = WriteFailure.pc
    /\ exc' = WriteFailure.exc
    /\ IF pc' = "repos_loop" THEN repo_idx' = repo_idx + 1 ELSE UNCHANGED repo_idx
    /\ UNCHANGED <<printed, llm_calls, extract_calls, envVars, repo_files, csv_file, row_idx,
                   repo_paths, skipped, auditVars, run, parseVars>>

(***************************************************************************)
(* parse_python.py: decorator expressions                                  *)
(***************************************************************************)
Ids == {"mcp", "tool", "x"}

\* the nodes of a decorator expression, as ast.parse builds them; Subscript stands
\* for every expression that is no Name, Attribute or Call
Name(id) == [node |-> "Name", id |-> id]
Attribute(value, attr) == [node |-> "Attribute", value |-> value, attr |-> attr]
Call(func) == [node |-> "Call", func |-> func]
Subscript == [node |-> "Subscript"]

RECURSIVE Exprs(_)
Exprs(depth) ==
    IF depth = 0 THEN {Name(id) : id \in Ids} \cup {Subscript}
    ELSE LET E == Exprs(depth - 1)
         IN  E \cup {Attribute(e, a) : e \in E, a \in Ids} \cup {Call(e) : e \in E}

\* a decorator name is a str; the model holds it split at its dots: "mcp.tool" is
\* <<"mcp", "tool">>, "" is <<"">>, ".tool" is <<"", "tool">>
EmptyName == <<"">>
\* parse_python.py:32, 36  f"{base}.{attr}"
Dotted(base, attr) == Append(base, attr)

\* a resolver that does not look into calls: every call gives ""
RECURSIVE get_decorator_name_no_call(_)
get_decorator_name_no_call(decorator) ==
    IF decorator.node = "Attribute"
      THEN Dotted(get_decorator_name_no_call(decorator.value), decorator.attr)
    ELSE IF decorator.node = "Name" THEN <<decorator.id>>
    ELSE EmptyName

\* parse_python.py:28-39  _get_decorator_name
RECURSIVE get_decorator_name(_)
get_decorator_name(decorator) ==
    IF decorator.node = "Call"
      THEN IF decorator.func.node = "Attribute"
             THEN Dotted(get_decorator_name(decorator.func.value), decorator.func.attr)
           ELSE IF decorator.func.node = "Name" THEN <<decorator.func.id>>
           ELSE EmptyName
    ELSE IF decorator.node = "Attribute"
      THEN Dotted(get_decorator_name(decorator.value), decorator.attr)
    ELSE IF decorator.node = "Name" THEN <<decorator.id>>
    ELSE EmptyName

\* parse_python.py:44  the literal "mcp.tool"
Marker == <<"mcp", "tool">>

\* parse_python.py:41-44  _is_mcp_tool_decorator
is_mcp_tool_decorator(decorator) == get_decorator_name(decorator) = Marker

(***************************************************************************)
(* parse_python.py: the file and its syntax tree                           *)
(***************************************************************************)
\* the decorator lists the functions of a file carry: none, @mcp.tool(), @mcp.tool,
\* @tool, @x.tool(), @mcp.tool() above @mcp.tool, and @mcp.tool()()
DecoratorLists ==
    {<<>>,
     <<Call(Attribute(Name("mcp"), "tool"))>>,
     <<Attribute(Name("mcp"), "tool")>>,
     <<Name("tool")>>,
     <<Call(Attribute(Name("x"), "tool"))>>,
     <<Call(Attribute(Name("mcp"), "tool")), Attribute(Name("mcp"), "tool")>>,
     <<Call(Call(Attribute(Name("mcp"), "tool")))>>}

\* the enclosing definitions of function k, by the parent of each function (0: the
\* function stands at the top of the module)
RECURSIVE Ancestors(_, _)
Ancestors(parents, k) ==
    IF parents[k] = 0 THEN {} ELSE {parents[k]} \cup Ancestors(parents, parents[k])

\* the functions of a file stand in source order: the parent of a function is the
\* function before it, one of that function's ancestors, or none
ValidNesting(parents) ==
    \A k \in 1..Len(parents) :
        \/ parents[k] = 0
        \/ k > 1 /\ parents[k] \in {k - 1} \cup Ancestors(parents, k - 1)

\* the annotation of a parameter or of the return value: none, or an expression
NoneNode == [node |-> "None"]
Annotations == {NoneNode, Name("x"), Attribute(Name("x"), "tool")}

\* the kinds of parameter, in the order a def lists them:  p, /, a, *v, k, **kw
ParamKinds == <<"posonly", "arg", "vararg", "kwonly", "kwarg">>
KindRank(kind) == CHOOSE r \in 1..Len(ParamKinds) : ParamKinds[r] = kind

\* the parameter lists of a def: up to MaxParams parameters, kinds in order, at most
\* one *v and one **kw; a parameter is named by its place in the list
ParamLists ==
    {params \in SeqsUpTo([kind : {ParamKinds[r] : r \in 1..Len(ParamKinds)},
                           annotation : Annotations], MaxParams) :
        /\ \A i, j \in 1..Len(params) :
              i < j => KindRank(params[i].kind) <= KindRank(params[j].kind)
        /\ \A kind \in {"vararg", "kwarg"} :
              Cardinality({i \in 1..Len(params) : params[i].kind = kind}) <= 1}

\* a function of a file as it is written:
\*   header      the line above its first decorator: "none", a "comment", or a
\*               comment that holds a form feed ("pagebreak")
\*   decorators  its decorators; each takes height lines and is followed by gap
\*               comment lines
\*   params, returns   the parameter list and the return annotation of the def line
\*   body        its one line of body: "pass" or a "string" literal
\*   parent      the function it is nested in (0: none)
Plain == [header : {"none"}, gap : {0}, height : {1}, params : {<<>>},
          returns : {NoneNode}, body : {"pass"}]

\* the records of S with the fields of Plain added
Written(S, layout) ==
    {[is_async |-> f.is_async, decorators |-> f.decorators, parent |-> f.parent,
      header |-> l.header, gap |-> l.gap, height |-> l.height, params |-> l.params,
      returns |-> l.returns, body |-> l.body] : f \in S, l \in layout}

\* the files: up to MaxFuncs functions, def or async def, each below its decorators
\* (one to a line) and followed by one line of body
FileTexts ==
    {text \in SeqsUpTo(Written([is_async : BOOLEAN, decorators : DecoratorLists,
                                 parent : 0..(MaxFuncs - 1)], Plain), MaxFuncs) :
        ValidNesting([k \in 1..Len(text) |-> text[k].parent])}

\* the files of one function under one decorator, any expression
DecoratorTexts ==
    {<<f>> : f \in Written({[is_async |-> FALSE, decorators |-> <<d>>, parent |-> 0] :
                               d \in Exprs(MaxDepth)}, Plain)}

\* the ways a file sets its decorators: one line each, one line each and a comment
\* after it, or two lines each
Styles == {[gap |-> 0, height |-> 1], [gap |-> 1, height |-> 1], [gap |-> 0, height |-> 2]}

\* the files whose functions stand under @mcp.tool() or under @x.tool() and
\* @mcp.tool, all set in one style, each below a comment line or not
SourceTexts ==
    UNION {{text \in SeqsUpTo(
                Written([is_async : {FALSE},
                         decorators : {<<Call(Attribute(Name("mcp"), "tool"))>>,
                                       <<Call(Attribute(Name("x"), "tool")),
                                         Attribute(Name("mcp"), "tool")>>},
                         parent : 0..(MaxFuncs - 1)],
                        [header : {"none", "comment", "pagebreak"}, gap : {style.gap},
                         height : {style.height}, params : {<<>>}, returns : {NoneNode},
                         body : {"pass"}]), MaxFuncs) :
                ValidNesting([k \in 1..Len(text) |-> text[k].parent])} : style \in Styles}

\* the files of one function under @mcp.tool(), with any parameter list
SignatureTexts ==
    {<<f>> : f \in Written({[is_async |-> a, decorators |->
                                <<Call(Attribute(Name("mcp"), "tool"))>>, parent |-> 0] :
                               a \in BOOLEAN},
                           [header : {"none"}, gap : {0}, height : {1},
                            params : ParamLists, returns : Annotations,
                            body : {"pass", "string"}])}

\* the lines of function f without the functions nested in it
HeaderLines(f) == IF f.header = "none" THEN 0 ELSE 1
OwnLines(f) == HeaderLines(f) + Len(f.decorators) * (f.height + f.gap) + 2

\* the lines of the file above the header of function k
RECURSIVE LinesAbove(_, _)
LinesAbove(text, k) ==
    IF k = 1 THEN 0 ELSE LinesAbove(text, k - 1) + OwnLines(text[k - 1])

\* the first line of decorator m of function k
DecoratorLine(text, k, m) ==
    LinesAbove(text, k) + HeaderLines(text[k]) + (m - 1) * (text[k].height + text[k].gap) + 1

\* the line of the body of function k
BodyLine(text, k) == LinesAbove(text, k) + OwnLines(text[k])

\* the last function written inside function k (k itself when none is nested in it)
LastInside(text, k) ==
    CHOOSE d \in k..Len(text) :
        /\ d = k \/ k \in Ancestors([j \in 1..Len(text) |-> text[j].parent], d)
        /\ \A j \in (d + 1)..Len(text) :
              k \notin Ancestors([i \in 1..Len(text) |-> text[i].parent], j)

(***************************************************************************)
(* A str is held as the sequence of its parts: the text of a line, named   *)
(* by the number the parser gives the line (and cut in two halves where    *)
(* the line holds a form feed), the newline and the form feed.             *)
(***************************************************************************)
Piece(n, half) == [line |-> n, half |-> half]
NL == [line |-> 0, half |-> 0]
FF == [line |-> 0, half |-> 1]

\* the text of line n of the file, without its newline
LineText(text, n) ==
    IF \E k \in 1..Len(text) : text[k].header = "pagebreak" /\ n = LinesAbove(text, k) + 1
    THEN <<Piece(n, 1), FF, Piece(n, 2)>>
    ELSE <<Piece(n, 1)>>

RECURSIVE TextOfLines(_, _)
TextOfLines(text, n) ==
    IF n = 0 THEN <<>> ELSE TextOfLines(text, n - 1) \o LineText(text, n) \o <<NL>>

\* parse_python.py:23-26  _read_file: the whole text, every line ended by "\n"
read_file(text) ==
    TextOfLines(text, IF text = <<>> THEN 0 ELSE BodyLine(text, Len(text)))

\* the arguments of kind `kind` of a parameter list, as ast.arg nodes
ArgsOfKind(params, kind) ==
    LET places == SelectSeq([i \in 1..Len(params) |-> i],
                            LAMBDA i : params[i].kind = kind)
    IN  [j \in 1..Len(places) |->
            [arg |-> places[j], annotation |-> params[places[j]].annotation]]

\* the ast.arguments node of a def; vararg and kwarg, one node or None in the tree,
\* are held as lists of at most one node
arguments(params) ==
    [posonlyargs |-> ArgsOfKind(params, "posonly"), args |-> ArgsOfKind(params, "arg"),
     vararg |-> ArgsOfKind(params, "vararg"), kwonlyargs |-> ArgsOfKind(params, "kwonly"),
     kwarg |-> ArgsOfKind(params, "kwarg")]

\* parse_python.py:21  ast.parse: the function definitions of the tree; lineno is the
\* line of def / async def and end_lineno the last line of the body, each decorator
\* has the lines it stands on; the parser counts lines by their newlines; function k
\* is named by its number
ast_parse(text) ==
    [k \in 1..Len(text) |->
        [node |-> IF text[k].is_async THEN "AsyncFunctionDef" ELSE "FunctionDef",
         name |-> k,
         lineno |-> BodyLine(text, k) - 1,
         end_lineno |-> BodyLine(text, LastInside(text, k)),
         decorator_list |->
            [m \in 1..Len(text[k].decorators) |->
                [expr |-> text[k].decorators[m],
                 lineno |-> DecoratorLine(text, k, m),
                 end_lineno |-> DecoratorLine(text, k, m) + text[k].height - 1]],
         args |-> arguments(text[k].params),
         returns |-> text[k].returns,
         body |-> text[k].body,
         parent |-> text[k].parent]]

\* the nesting depth of function k of the tree
Depth(tree, k) == Cardinality(Ancestors([j \in 1..Len(tree) |-> tree[j].parent], k))

\* the functions of the tree at one depth, in source order
Level(tree, depth) ==
    SelectSeq([k \in 1..Len(tree) |-> k], LAMBDA k : Depth(tree, k) = depth)

RECURSIVE WalkFrom(_, _)
WalkFrom(tree, depth) ==
    IF depth >= Len(tree) THEN <<>> ELSE Level(tree, depth) \o WalkFrom(tree, depth + 1)

\* parse_python.py:97  ast.walk(self.tree): breadth first, so by depth and then by
\* source order; the nodes that are no function definition are left out here
ast_walk(tree) == WalkFrom(tree, 0)

\* parse_python.py:98
IsFunctionDef(node) == node.node = "FunctionDef" \/ node.node = "AsyncFunctionDef"

\* parse_python.py:100-101  some decorator of the list passes the test
HasToolDecorator(node) ==
    \E m \in 1..Len(node.decorator_list) : is_mcp_tool_decorator(node.decorator_list[m].expr)

\* str.splitlines: the form feed is a line boundary as the newline is (and so are
\* \r, \v, \x1c-\x1e, \x85, \u2028 and \u2029, which no file of the model holds)
IsBoundary(c) == c = NL \/ c = FF

\* str.splitlines(): the parts between the line boundaries; a boundary at the very
\* end opens no line
RECURSIVE splitlines(_)
splitlines(s) ==
    IF s = <<>> THEN <<>>
    ELSE LET cuts == {i \in 1..Len(s) : IsBoundary(s[i])}
             cut == IF cuts = {} THEN Len(s) + 1 ELSE SetMin(cuts)
         IN  <<SubSeq(s, 1, cut - 1)>> \o splitlines(SubSeq(s, cut + 1, Len(s)))

\* list[start:stop] for 0 <= start
Slice(list, start, stop) == SubSeq(list, start + 1, Min(stop, Len(list)))

\* sep.join(strs)
RECURSIVE Join(_, _)
Join(strs, sep) ==
    IF strs = <<>> THEN <<>>
    ELSE IF Len(strs) = 1 THEN strs[1]
    ELSE strs[1] \o <<sep>> \o Join(Tail(strs), sep)

\* parse_python.py:55-59  decorator_lines, from decorator m on
RECURSIVE decorator_lines(_, _)
decorator_lines(node, m) ==
    IF m > Len(node.decorator_list) THEN <<>>
    ELSE Slice(splitlines(source_code), node.decorator_list[m].lineno - 1,
               node.decorator_list[m].end_lineno)
         \o decorator_lines(node, m + 1)

\* parse_python.py:46-62  _get_function_source
get_function_source(node) ==
    LET lines == Slice(splitlines(source_code), node.lineno - 1, node.end_lineno)
    IN  Join(decorator_lines(node, 1) \o lines, NL)

\* parse_python.py:64-67  _get_docstring: the text of the string literal that is the
\* first statement of the body, "" when it is none
get_docstring(node) == IF node.body = "string" THEN "doc" ELSE ""

\* ast.unparse of an annotation that is a name or an attribute access: its dotted name
RECURSIVE ast_unparse(_)
ast_unparse(e) ==
    CASE e.node = "Name" -> <<e.id>>
      [] e.node = "Attribute" -> Dotted(ast_unparse(e.value), e.attr)

\* parse_python.py:74-76, 79-81  the type of an annotation: "" when there is none
TypeText(annotation) == IF annotation # NoneNode THEN ast_unparse(annotation) ELSE EmptyName

\* parse_python.py:69-86  _get_function_signature: params is a dict, held as the list
\* of its items in the order of insertion
get_function_signature(node) ==
    [parameters |->
        [j \in 1..Len(node.args.args) |->
            [name |-> node.args.args[j].arg,
             type |-> TypeText(node.args.args[j].annotation)]],
     return_type |-> TypeText(node.returns)]

\* parse_python.py:102-108  function_info
function_info(node) ==
    [name |-> node.name,
     source_code |-> get_function_source(node),
     docstring |-> get_docstring(node),
     signature |-> get_function_signature(node),
     line_number |-> node.lineno]

(***************************************************************************)
(* parse_python.py: extract_tool_functions                                 *)
(***************************************************************************)
\* a node that is no function definition: its decorators are not looked at
NoDecoratorLoop == [appended |-> <<>>, tested |-> 0]

\* a loop without the break of l.110: every decorator is tested and every match
\* appends a record
RECURSIVE DecoratorLoopNoBreak(_, _)
DecoratorLoopNoBreak(node, m) ==
    IF m > Len(node.decorator_list) THEN NoDecoratorLoop
    ELSE LET rest == DecoratorLoopNoBreak(node, m + 1)
         IN  [appended |-> IF is_mcp_tool_decorator(node.decorator_list[m].expr)
                           THEN <<function_info(node)>> \o rest.appended
                           ELSE rest.appended,
              tested |-> rest.tested + 1]

\* parse_python.py:100-110  for decorator in node.decorator_list, from decorator m
\* on: the records the loop appends and the decorators it tests; the first match
\* appends function_info and breaks
RECURSIVE DecoratorLoop(_, _)
DecoratorLoop(node, m) ==
    IF m > Len(node.decorator_list) THEN NoDecoratorLoop
    ELSE IF is_mcp_tool_decorator(node.decorator_list[m].expr)
      THEN [appended |-> <<function_info(node)>>, tested |-> 1]
    ELSE [DecoratorLoop(node, m + 1) EXCEPT !.tested = @ + 1]

\* parse_python.py:97-110  one turn of  for node in ast.walk(self.tree)
WalkNode ==
    /\ pc = "extract_tool_functions"
    /\ walk_idx < Len(ast_walk(source_file))
    /\ LET node == source_file[ast_walk(source_file)[walk_idx + 1]]
           loop == IF IsFunctionDef(node) THEN DecoratorLoop(node, 1) ELSE NoDecoratorLoop
       IN  /\ tool_functions' = tool_functions \o loop.appended
           /\ examined' = Append(examined, loop.tested)
    /\ walk_idx' = walk_idx + 1
    /\ UNCHANGED <<run, source_code, source_file, pc, exc, printed, llm_calls, extract_calls, envVars,
                   diskVars, batchVars, auditVars>>

\* parse_python.py:112  return tool_functions
ExtractReturns ==
    /\ pc = "extract_tool_functions"
    /\ walk_idx = Len(ast_walk(source_file))
    /\ pc' = "extracted"
    /\ UNCHANGED <<exc, printed, llm_calls, extract_calls, envVars, diskVars, batchVars,
                   auditVars, run, parseVars>>

(***************************************************************************)
(* Initial states and specifications                                       *)
(***************************************************************************)
\* a client that answers each call at any time, with a response or an exception
AnyClient ==
    [latency |-> "any", failures_left |-> -1, pending |-> <<>>, responses |-> Responses,
     errors |-> Errors, logs |-> FALSE]
\* a fake client that answers the calls in the order it got them, none before the
\* collection has begun, always with the same text, and raises at most once
UniformClient ==
    [latency |-> "uniform", failures_left |-> 1, pending |-> <<>>,
     responses |-> {"json_object"}, errors |-> {"network"}, logs |-> FALSE]

\* a client that answers at any time, always with the same text, and raises at most once
FlakyOnceClient ==
    [latency |-> "any", failures_left |-> 1, pending |-> <<>>,
     responses |-> {"json_object"}, errors |-> {"network"}, logs |-> FALSE]

\* a fake client that answers at any time, with any response or exception, and keeps
\* a log of its answers
LoggingClient ==
    [latency |-> "any", failures_left |-> -1, pending |-> <<>>, responses |-> Responses,
     errors |-> Errors, logs |-> TRUE]

NoManifest == [isfile |-> FALSE, rows |-> <<>>, fail_at |-> 0]
Manifests ==
    {NoManifest} \cup
    {[isfile |-> TRUE, rows |-> rows, fail_at |-> k] :
        rows \in SeqsUpTo(RowKinds, MaxRepos), k \in 0..(MaxRepos + 1)}

\* nothing has run yet
InitIdle ==
    /\ exc = ""
    /\ printed = {}
    /\ llm_calls = 0
    /\ extract_calls = 0
    /\ row_idx = 0
    /\ repo_paths = <<>>
    /\ repo_idx = 0
    /\ skipped = {}
    /\ write_log = <<>>
    /\ repo_path = 0
    /\ file_idx = 0
    /\ all_tools = <<>>
    /\ worker_count = 0
    /\ tasks = <<>>
    /\ finished_set = {}
    /\ finished_futures = <<>>
    /\ analyzed_tools = <<>>
    /\ result = NoReport
    /\ run = 1
    /\ walk_idx = 0
    /\ tool_functions = <<>>
    /\ examined = <<>>

\* what holds at the start of every run
InitCommon ==
    /\ pc = "main"
    /\ source_code = <<>>
    /\ source_file = <<>>
    /\ InitIdle

\* --repo 1 : one repository of any number of tools, any client
InitAudit ==
    /\ InitCommon
    /\ args = [repo |-> 1, csv |-> FALSE]
    /\ client = AnyClient
    /\ \E l \in SingleFileLayouts :
          repo_files = [r \in Repos |-> IF r = 1 THEN l ELSE <<>>]
    /\ artifact = [r \in Repos |-> NoArtifact]
    /\ csv_file = NoManifest

\* --repo 1 : one repository of any files, some of which do not parse
InitExtract ==
    /\ InitCommon
    /\ args = [repo |-> 1, csv |-> FALSE]
    /\ client = FlakyOnceClient
    /\ \E l \in Layouts : repo_files = [r \in Repos |-> IF r = 1 THEN l ELSE <<>>]
    /\ artifact = [r \in Repos |-> NoArtifact]
    /\ csv_file = NoManifest

\* --repo 1 : one repository with more tools than the pool has workers
InitPool ==
    /\ InitCommon
    /\ args = [repo |-> 1, csv |-> FALSE]
    /\ client = UniformClient
    /\ repo_files = [r \in Repos |->
                        IF r = 1 THEN <<[parses |-> TRUE, ntools |-> maxConcurrency + 1]>>
                        ELSE <<>>]
    /\ artifact = [r \in Repos |-> NoArtifact]
    /\ csv_file = NoManifest

\* --csv : any manifest over repositories of one file with one tool each, some of
\* them with an artifact of an earlier run
InitBatch ==
    /\ InitCommon
    /\ args = [repo |-> 0, csv |-> TRUE]
    /\ client = AnyClient
    /\ repo_files = [r \in Repos |-> <<[parses |-> TRUE, ntools |-> 1]>>]
    /\ artifact \in [Repos -> {NoArtifact, OldArtifact}]
    /\ csv_file \in Manifests
    /\ csv_file.fail_at <= Len(csv_file.rows) + 1

\* --repo 1 : one repository of one file with two tools, and a client that keeps a log
InitLogged ==
    /\ InitCommon
    /\ args = [repo |-> 1, csv |-> FALSE]
    /\ client = LoggingClient
    /\ repo_files = [r \in Repos |->
                        IF r = 1 THEN <<[parses |-> TRUE, ntools |-> 2]>> ELSE <<>>]
    /\ artifact = [r \in Repos |-> NoArtifact]
    /\ csv_file = NoManifest

\* any command line: --repo 1 or not, --csv or not, over the disk of InitBatch
InitMain ==
    /\ InitCommon
    /\ args \in [repo : {0, 1}, csv : BOOLEAN]
    /\ client = AnyClient
    /\ repo_files = [r \in Repos |-> <<[parses |-> TRUE, ntools |-> 1]>>]
    /\ artifact \in [Repos -> {NoArtifact, OldArtifact}]
    /\ csv_file \in Manifests
    /\ csv_file.fail_at <= Len(csv_file.rows) + 1

\* extract_tools on a file of some functions
InitFile ==
    /\ InitIdle
    /\ pc = "extract_tool_functions"
    /\ \E text \in FileTexts :
          source_code = read_file(text) /\ source_file = ast_parse(text)
    /\ args = [repo |-> 0, csv |-> FALSE]
    /\ client = AnyClient
    /\ repo_files = [r \in Repos |-> <<>>]
    /\ artifact = [r \in Repos |-> NoArtifact]
    /\ csv_file = NoManifest

\* extract_tools on a file written with comments and decorators of several lines
InitSource ==
    /\ InitIdle
    /\ pc = "extract_tool_functions"
    /\ \E text \in SourceTexts :
          source_code = read_file(text) /\ source_file = ast_parse(text)
    /\ args = [repo |-> 0, csv |-> FALSE]
    /\ client = AnyClient
    /\ repo_files = [r \in Repos |-> <<>>]
    /\ artifact = [r \in Repos |-> NoArtifact]
    /\ csv_file = NoManifest

\* extract_tools on a file of one function with any parameter list
InitSignature ==
    /\ InitIdle
    /\ pc = "extract_tool_functions"
    /\ \E text \in SignatureTexts :
          source_code = read_file(text) /\ source_file = ast_parse(text)
    /\ args = [repo |-> 0, csv |-> FALSE]
    /\ client = AnyClient
    /\ repo_files = [r \in Repos |-> <<>>]
    /\ artifact = [r \in Repos |-> NoArtifact]
    /\ csv_file = NoManifest

\* extract_tools on a file of one function under one decorator
InitDecorator ==
    /\ InitIdle
    /\ pc = "extract_tool_functions"
    /\ \E text \in DecoratorTexts :
          source_code = read_file(text) /\ source_file = ast_parse(text)
    /\ args = [repo |-> 0, csv |-> FALSE]
    /\ client = AnyClient
    /\ repo_files = [r \in Repos |-> <<>>]
    /\ artifact = [r \in Repos |-> NoArtifact]
    /\ csv_file = NoManifest

\* the user starts the program again with the same command line, after a run that
\* ended without an exception: a new process over the disk as the last run left it
RunAgain ==
    /\ pc = "done"
    /\ run < MaxRuns
    /\ run' = run + 1
    /\ pc' = "main"
    /\ exc' = ""
    /\ printed' = {}
    /\ llm_calls' = 0
    /\ extract_calls' = 0
    /\ row_idx' = 0
    /\ repo_paths' = <<>>
    /\ repo_idx' = 0
    /\ skipped' = {}
    /\ write_log' = <<>>
    /\ repo_path' = 0
    /\ file_idx' = 0
    /\ all_tools' = <<>>
    /\ worker_count' = 0
    /\ tasks' = <<>>
    /\ finished_set' = {}
    /\ finished_futures' = <<>>
    /\ analyzed_tools' = <<>>
    /\ result' = NoReport
    /\ UNCHANGED <<parseVars, envVars, diskVars, csv_file>>

Workers ==
    \E i \in TaskIds :
        \/ StartTask(i)
        \/ \E response \in Responses : CallReturns(i, response)
        \/ \E e \in Errors, jitter \in 0..(JitterSteps - 1) : CallRaises(i, e, jitter)
        \/ WakeUp(i)

NextAudit ==
    \/ Main
    \/ AnalyzeRepoEnter
    \/ ExtractFile
    \/ CreatePool
    \/ Submit
    \/ AsCompleted
    \/ Workers
    \/ Collect
    \/ ReturnReport

NextBatch ==
    \/ AnalyzeReposEnter
    \/ ReadRow
    \/ ReadFails
    \/ ReadEnds
    \/ SkipRepo
    \/ StartRepo
    \/ LoopEnds
    \/ PersistOk
    \/ PersistOpenFails
    \/ PersistDumpFails

Next == NextAudit \/ NextBatch

NextParse ==
    \/ WalkNode
    \/ ExtractReturns

Init == InitAudit \/ InitExtract \/ InitPool \/ InitBatch \/ InitLogged

\* every scenario
Spec == Init /\ [][Next]_vars
\* one repository or a batch, any client
SpecAll == (InitAudit \/ InitBatch) /\ [][Next]_vars
\* one repository, analysed by analyze_repo
SpecAudit == InitAudit /\ [][NextAudit]_vars
\* one repository of several files
SpecExtract == InitExtract /\ [][NextAudit]_vars
\* one repository, and a repository that fills the pool
SpecPool == (InitAudit \/ InitPool) /\ [][NextAudit]_vars
\* a batch over a manifest
SpecBatch == InitBatch /\ [][Next]_vars
\* a batch over a manifest, run again after it ended
SpecRerun == InitBatch /\ [][Next \/ RunAgain]_vars
\* any command line
SpecMain == InitMain /\ [][Next]_vars
\* the extractor on one file
SpecParse == (InitFile \/ InitDecorator) /\ [][NextParse]_vars
\* the extractor on one file, for what it copies of the text
SpecSource == (InitSource \/ InitSignature) /\ [][NextParse]_vars
\* the threads of analyze_repo under a fair scheduler: the main thread goes on
\* whenever it can; whenever a worker thread can take a step (start a queued record,
\* get the answer to its call, end its sleep), some worker thread takes one
FairAudit ==
    /\ WF_vars(Main \/ AnalyzeRepoEnter \/ ExtractFile \/ CreatePool \/ Submit
                   \/ AsCompleted \/ Collect \/ ReturnReport)
    /\ WF_vars(Workers)
\* one repository, analysed by analyze_repo under a fair scheduler and with a client
\* that answers every call
SpecFair == InitAudit /\ [][NextAudit]_vars /\ FairAudit
\* one repository of two tools, every answer of the client logged
SpecLogged == InitLogged /\ [][NextAudit]_vars

(***************************************************************************)
(* Properties                                                              *)
(***************************************************************************)
\* analyze_repo has returned its report
Returned == result.kind = "report" /\ pc \in {"done", "persist"}

\* record i of all_tools is entry k of the report
IsEntryOf(report, k, i) ==
    /\ report.tools[k].file_path = all_tools[i].file_path
    /\ report.tools[k].line_number = all_tools[i].line_number

SuccessText(a) == a.kind = "response" /\ a.text \in Responses
FailureMessage(a) ==
    a.kind \in {"Error during analysis after n attempts: ", "Failed to analyze after n attempts"}

\* all attempts for record i failed
Exhausted(i) == Done(i) /\ tasks[i].calls = 3 /\ tasks[i].analysis.kind # "response"

\* C1 (no-drop): when analyze_repo returns, its report holds exactly as many entries
\* as records were extracted (none included), every extracted record is one of them,
\* and each entry carries a success text or a failure message.
C1_NoDrop ==
    Returned =>
        /\ Len(result.tools) = Len(all_tools)
        /\ \A i \in 1..Len(all_tools) : \E k \in 1..Len(result.tools) : IsEntryOf(result, k, i)
        /\ \A k \in 1..Len(result.tools) :
              SuccessText(result.tools[k].analysis) \/ FailureMessage(result.tools[k].analysis)

\* a report of two records, one analysed with success and one after failures only
C1_Witness ==
    /\ Returned
    /\ Len(all_tools) = 2
    /\ \E k, m \in 1..Len(result.tools) :
          SuccessText(result.tools[k].analysis) /\ FailureMessage(result.tools[m].analysis)

\* C2 (concurrency bound): while the pool runs, the client calls in flight, and the
\* workers occupied by a call or by a backoff sleep, number at most
\* min(10, N + 1); a record beyond that stays queued.
C2_ConcurrencyBound ==
    PoolRunning =>
        /\ Cardinality(InFlight) <= Min(10, Len(all_tools) + 1)
        /\ Cardinality(Busy) <= Min(10, Len(all_tools) + 1)

\* ten calls are in flight and an eleventh record waits in the queue
C2_Witness == Cardinality(InFlight) = 10 /\ Queued # {}

\* C3 (retry budget): a record sees between one and three client calls; a call that
\* failed is followed by another exactly when fewer than three were made; nothing
\* is called after a success or after the third failure.
C3_RetryBudget ==
    /\ [](\A i \in TaskIds :
            /\ tasks[i].calls <= 3
            /\ Done(i) => tasks[i].calls >= 1
            /\ tasks[i].st = "sleeping" => tasks[i].calls < 3
            /\ (Done(i) /\ tasks[i].analysis.kind # "response") => tasks[i].calls = 3)
    /\ [][\A i \in TaskIds \cap DOMAIN tasks' :
            /\ (tasks[i].st = "calling" /\ tasks'[i].st # "calling") =>
                  \/ tasks'[i].st = "returned" /\ tasks'[i].analysis.kind = "response"
                  \/ tasks'[i].st = "sleeping" /\ tasks[i].calls < 3
                  \/ tasks'[i].st = "returned" /\ tasks[i].calls = 3
                       /\ FailureMessage(tasks'[i].analysis)
            /\ (tasks[i].st = "sleeping" /\ tasks'[i].st # "sleeping") =>
                  tasks'[i].st = "calling" /\ tasks'[i].calls = tasks[i].calls + 1
            /\ Done(i) => tasks'[i] = tasks[i]]_vars

\* one record gave up after three calls, another succeeded on its second
C3_Witness ==
    \E i, j \in TaskIds :
        /\ Exhausted(i)
        /\ Done(j) /\ tasks[j].analysis.kind = "response" /\ tasks[j].calls = 2

\* C4 (backoff schedule): the k-th wait of a record has base 2^k seconds and lies
\* between its k-th and (k+1)-th call, a running sleep lasts its base plus a jitter
\* in [0, 1) s, and a record is done after at most two waits: bases 2 s and 4 s
\* when its third call was made.
C4_BackoffSchedule ==
    \A i \in TaskIds :
        /\ \A k \in 1..Len(tasks[i].waits) : tasks[i].waits[k] = Pow(2, k)
        /\ Len(tasks[i].waits) <= 2
        /\ tasks[i].st = "sleeping" =>
              /\ Len(tasks[i].waits) = tasks[i].calls
              /\ tasks[i].sleep_time >= Pow(2, tasks[i].calls) * JitterSteps
              /\ tasks[i].sleep_time < (Pow(2, tasks[i].calls) + 1) * JitterSteps
        /\ tasks[i].st \in {"calling", "returned", "raised"} =>
              Len(tasks[i].waits) = tasks[i].calls - 1
        /\ tasks[i].st # "sleeping" => tasks[i].sleep_time = 0
        /\ (Done(i) /\ tasks[i].calls = 3) => tasks[i].waits = <<2, 4>>

\* calls 1 and 2 failed, call 3 succeeded: a success after the waits 2 s and 4 s
C4_Witness ==
    \E i \in TaskIds :
        /\ tasks[i].st = "returned" /\ tasks[i].analysis.kind = "response"
        /\ tasks[i].calls = 3 /\ tasks[i].waits = <<2, 4>>

\* C5 (failure containment): a record whose attempts all failed ends with a failure
\* message and no exception; the audit is not stopped by it (some step stays
\* possible until analyze_repo has returned), and the report analyze_repo returns
\* holds that record and every other one, each with its outcome.
C5_FailureContainment ==
    (\E i \in TaskIds : Exhausted(i)) =>
        /\ \A i \in TaskIds : Exhausted(i) =>
              tasks[i].st = "returned" /\ FailureMessage(tasks[i].analysis)
        /\ exc = "" /\ pc # "raised"
        /\ ~Returned => ENABLED NextAudit
        /\ Returned =>
              \A i \in TaskIds : \E k \in 1..Len(result.tools) :
                  /\ IsEntryOf(result, k, i)
                  /\ result.tools[k].analysis = tasks[i].analysis
                  /\ result.tools[k].analysis.kind # "absent"

\* the report of a repository where one record failed thrice and another succeeded
C5_Witness ==
    /\ Returned
    /\ \E i, j \in TaskIds : Exhausted(i) /\ SuccessText(tasks[j].analysis)
    /\ result.tools_count = 2

\* extraction is over
ExtractionDone == pc \in {"submit", "collect", "persist", "done"} /\ repo_path # 0

\* C7 (parse-failure containment): a file that fails to parse costs its own records
\* only: after extraction all_tools holds every marked function of every file that
\* parses, and the report analyze_repo returns has an entry for each.
C7_ParseFailureContainment ==
    /\ ExtractionDone =>
          \A f \in 1..Len(code_files) : code_files[f].parses =>
              \A line \in 1..code_files[f].ntools :
                  \E i \in 1..Len(all_tools) :
                      all_tools[i] = [file_path |-> f, line_number |-> line]
    /\ (Returned /\ repo_path # 0) =>
          \A f \in 1..Len(code_files) : code_files[f].parses =>
              \A line \in 1..code_files[f].ntools :
                  \E k \in 1..Len(result.tools) :
                      /\ result.tools[k].file_path = f
                      /\ result.tools[k].line_number = line
    /\ pc = "done" /\ args.repo # 0 /\ ~args.csv => result.kind = "report"

\* a repository whose second file does not parse and whose first holds a tool: the
\* report is returned with that tool
C7_Witness ==
    /\ Returned /\ repo_path # 0
    /\ Len(code_files) = 2 /\ ~code_files[2].parses
    /\ code_files[1].parses /\ code_files[1].ntools = 1
    /\ result.tools_count = 1 /\ result.tools[1].file_path = 1

\* the for loop of analyze_repos stands at an entry whose artifact exists
AtFinishedEntry ==
    /\ pc = "repos_loop"
    /\ repo_idx < Len(repo_paths)
    /\ artifact[repo_paths[repo_idx + 1]].exists

\* C6 (resumable skip): when the loop of analyze_repos reaches an entry whose
\* artifact exists, its next step moves on to the following entry: no extraction,
\* no client call, and every artifact as it was.
C6_ResumableSkip ==
    [][AtFinishedEntry =>
          /\ pc' = "repos_loop"
          /\ repo_idx' = repo_idx + 1
          /\ extract_calls' = extract_calls
          /\ llm_calls' = llm_calls
          /\ artifact' = artifact
          /\ write_log' = write_log]_vars

\* an entry with an artifact of an earlier run was skipped, and the whole batch made
\* no client call
C6_Witness ==
    /\ pc = "done"
    /\ skipped # {}
    /\ \E k \in skipped : artifact[repo_paths[k]] = OldArtifact
    /\ llm_calls = 0 /\ extract_calls = 0

\* C8 (persistence failure): a write that fails is the last thing analyze_repos
\* does: the exception has left it (nothing caught it, no further entry is
\* handled), and no artifact is written twice in a run.
C8_PersistenceFatal ==
    /\ \A k \in 1..Len(write_log) :
          write_log[k][2] # "written" =>
              /\ k = Len(write_log)
              /\ pc = "raised" /\ exc = "OSError"
              /\ repo_idx < Len(repo_paths) /\ repo_paths[repo_idx + 1] = write_log[k][1]
    /\ \A k, m \in 1..Len(write_log) : write_log[k][1] = write_log[m][1] => k = m
    /\ pc = "raised" => ~ENABLED Next

\* the write of a report failed and the exception left analyze_repos
C8_Witness ==
    /\ pc = "raised" /\ exc = "OSError"
    /\ write_log # <<>> /\ write_log[Len(write_log)][2] # "written"

\* read_repos_from_csv met an exception
ManifestErrorOccurred ==
    /\ csv_file.isfile
    /\ csv_file.fail_at # 0
    /\ row_idx = csv_file.fail_at - 1
    /\ pc \notin {"main", "analyze_repos", "read_csv"}

\* C9 (manifest failure), as claimed: once reading the manifest has failed, or the
\* manifest is no file, nothing is extracted, no client call is made and no
\* artifact is written.
C9_ManifestFailureAborts ==
    (ManifestErrorOccurred \/ (~csv_file.isfile /\ args.csv /\ args.repo = 0)) =>
        /\ extract_calls = 0
        /\ llm_calls = 0
        /\ write_log = <<>>
        /\ \A r \in Repos : artifact[r] \in {NoArtifact, OldArtifact}

\* C10 (report count): in the report analyze_repo returns and in every report an
\* artifact holds, tools_count is the length of tools; a repository without marked
\* functions gives tools = <<>> and tools_count = 0.
C10_ReportCount ==
    /\ result.kind = "report" =>
          /\ result.tools_count = Len(result.tools)
          /\ (Returned /\ Len(all_tools) = 0) =>
                (result.tools = <<>> /\ result.tools_count = 0)
    /\ \A r \in Repos : artifact[r].content.kind = "report" =>
          artifact[r].content.tools_count = Len(artifact[r].content.tools)

\* a returned report of two entries, one a success and one a failure
C10_Witness ==
    /\ result.kind = "report" /\ result.tools_count = 2
    /\ \E k, m \in 1..Len(result.tools) :
          /\ result.tools[k].analysis.kind = "response"
          /\ result.tools[m].analysis.kind = "Error during analysis after n attempts: "

\* C11 (completion order), as claimed: the entries collected stand in the order in
\* which their analyses completed, and a finished record waiting to be collected can
\* be collected at once, whatever else still runs.
C11_CompletionOrder ==
    /\ \A k, m \in 1..Len(analyzed_tools) :
          k < m => tasks[analyzed_tools[k]].done_at < tasks[analyzed_tools[m]].done_at
    /\ (pc = "collect" /\ (finished_set # {} \/ finished_futures # <<>>)) => ENABLED Collect

\* the keys of a report entry beside those of the extracted record, file_path and
\* analysis (the raw text)
DerivedFields(entry) ==
    DOMAIN entry \ {"name", "source_code", "docstring", "signature", "line_number",
                    "file_path", "analysis"}

\* C12 (derived fields), as claimed: the entry of a record whose response was a JSON
\* object {"score": s, "reason": r} holds the response as raw text and two derived
\* fields, score and reason; the entry of a record whose response was no JSON holds
\* the raw text and no derived field.
C12_DerivedFields ==
    Returned =>
        \A k \in 1..Len(result.tools) :
            /\ result.tools[k].analysis = SuccessAnalysis("json_object") =>
                  Cardinality(DerivedFields(result.tools[k])) = 2
            /\ result.tools[k].analysis = SuccessAnalysis("not_json") =>
                  DerivedFields(result.tools[k]) = {}

\* the qualified name of a decorator expression: a call resolves through its callee,
\* an attribute access to base.attribute, an identifier to itself, anything else to
\* the empty name
RECURSIVE QualifiedName(_)
QualifiedName(e) ==
    IF e.node = "Call" THEN QualifiedName(e.func)
    ELSE IF e.node = "Attribute"
      THEN IF QualifiedName(e.value) = EmptyName THEN EmptyName
           ELSE Dotted(QualifiedName(e.value), e.attr)
    ELSE IF e.node = "Name" THEN <<e.id>>
    ELSE EmptyName

\* a function is marked: one of its decorators has the qualified name mcp.tool
CarriesMarker(node) ==
    \E m \in 1..Len(node.decorator_list) : QualifiedName(node.decorator_list[m].expr) = Marker

MarkedFunctions == {k \in 1..Len(source_file) : CarriesMarker(source_file[k])}

\* C13 (extraction correctness), as claimed: extract_tool_functions returns as many
\* records as the file has marked functions, one for each marked function with its
\* name and the line of its def (below every decorator), and none for a function
\* without decorators.
C13_ExtractionCorrectness ==
    pc = "extracted" =>
        /\ Len(tool_functions) = Cardinality(MarkedFunctions)
        /\ \A k \in MarkedFunctions :
              /\ \E r \in 1..Len(tool_functions) :
                    /\ tool_functions[r].name = source_file[k].name
                    /\ tool_functions[r].line_number = source_file[k].lineno
              /\ \A m \in 1..Len(source_file[k].decorator_list) :
                    source_file[k].lineno > source_file[k].decorator_list[m].lineno
        /\ \A r \in 1..Len(tool_functions) :
              source_file[tool_functions[r].name].decorator_list # <<>>

\* a name or a chain of attribute accesses on a name:  a ,  a.b ,  a.b.c
RECURSIVE IsDottedName(_)
IsDottedName(e) ==
    \/ e.node = "Name"
    \/ e.node = "Attribute" /\ IsDottedName(e.value)

\* the three forms of a decorator: bare name, attribute access, called attribute access
ThreeForms(e) ==
    \/ e.node = "Name"
    \/ e.node = "Attribute" /\ IsDottedName(e.value)
    \/ e.node = "Call" /\ e.func.node = "Attribute" /\ IsDottedName(e.func.value)

BatchRan ==
    \/ "Error: CSV file does not exist" \in printed
    \/ "No repositories found" \in printed
    \/ repo_paths # <<>> /\ repo_idx = Len(repo_paths)

\* C15 (mode dispatch), as claimed: when main has returned, with both options it
\* has printed the error and analysed nothing; with --repo alone it has analysed
\* that repository and run no batch; with --csv alone it has run the batch; with
\* neither option it has run the batch too (over the default manifest).
C15_ModeDispatch ==
    pc = "done" =>
        /\ (args.repo # 0 /\ args.csv) =>
              /\ "Error: Cannot specify both --repo and --csv options" \in printed
              /\ extract_calls = 0 /\ llm_calls = 0 /\ ~BatchRan
        /\ (args.repo # 0 /\ ~args.csv) =>
              /\ result.kind = "report" /\ result.repo_name = args.repo
              /\ ~BatchRan
        /\ (args.repo = 0 /\ args.csv) => BatchRan
        /\ (args.repo = 0 /\ ~args.csv) => BatchRan

OutcomeOf(replies) ==
    LET last == replies[Len(replies)]
    IN  IF last \in Responses THEN SuccessAnalysis(last) ELSE ErrorAnalysis(last)

\* C17 (record/outcome pairing): a record is taken by a worker at most once; each of
\* its calls is answered to it; its analysis is written once, by the worker holding
\* it, from the answers to its own calls; and the report holds exactly one entry for
\* each record, with that outcome.
C17_Pairing ==
    /\ [](\A i \in TaskIds :
            /\ tasks[i].starts <= 1
            /\ tasks[i].calls =
                  Len(tasks[i].replies) + (IF tasks[i].st = "calling" THEN 1 ELSE 0)
            /\ Done(i) => (tasks[i].starts = 1 /\ tasks[i].analysis = OutcomeOf(tasks[i].replies))
            /\ ~Done(i) => tasks[i].analysis = NoAnalysis)
    /\ [](Returned =>
            \A i \in TaskIds :
                /\ Cardinality({k \in 1..Len(result.tools) : IsEntryOf(result, k, i)}) = 1
                /\ \A k \in 1..Len(result.tools) :
                      IsEntryOf(result, k, i) =>
                          result.tools[k].analysis = OutcomeOf(tasks[i].replies))
    /\ [][\A i \in TaskIds \cap DOMAIN tasks' :
            tasks'[i].analysis # tasks[i].analysis =>
                /\ tasks[i].st = "calling" /\ tasks[i].analysis = NoAnalysis
                /\ \A j \in TaskIds \ {i} : tasks'[j] = tasks[j]]_vars

\* the report of two records: one succeeded at once, the other was done later,
\* after three failures; each entry has its own record's outcome
C17_Witness ==
    /\ Returned
    /\ \E i, j \in TaskIds :
          /\ tasks[i].replies = <<"json_object">>
          /\ Len(tasks[j].replies) = 3 /\ tasks[j].replies[3] = "rate_limit"
          /\ tasks[j].done_at > tasks[i].done_at
          /\ \E k, m \in 1..Len(result.tools) :
                /\ IsEntryOf(result, k, i) /\ result.tools[k].analysis.kind = "response"
                /\ IsEntryOf(result, m, j) /\ result.tools[m].analysis = ErrorAnalysis("rate_limit")

\* the three calls of record i were all answered with an exception
AllAttemptsFailed(i) ==
    /\ Done(i)
    /\ Len(tasks[i].replies) = max_retries
    /\ \A k \in 1..max_retries : tasks[i].replies[k] \in Errors

\* C20 (exhausted-retries message), as claimed: after three failed attempts the
\* analysis is "exhausted retries: " followed by the text of the third error.
C20_ExhaustedRetriesText ==
    \A i \in TaskIds :
        AllAttemptsFailed(i) =>
            /\ tasks[i].analysis.kind = "exhausted retries: "
            /\ tasks[i].analysis.text = tasks[i].replies[3]

\* C20, amended: after three failed attempts the function has returned and the
\* analysis is "Error during analysis after 3 attempts: " followed by the text of
\* the third error, whatever the first two were.
C20_ErrorAfterAttemptsText ==
    \A i \in TaskIds :
        AllAttemptsFailed(i) =>
            /\ tasks[i].st = "returned"
            /\ tasks[i].analysis.kind = "Error during analysis after n attempts: "
            /\ tasks[i].analysis.n = 3
            /\ tasks[i].analysis.text = tasks[i].replies[3]

\* a record that met a network error twice and then a rate limit: its message
\* names the rate limit
C20_Witness ==
    \E i \in TaskIds :
        /\ AllAttemptsFailed(i)
        /\ tasks[i].replies = <<"network", "network", "rate_limit">>
        /\ tasks[i].analysis = ErrorAnalysis("rate_limit")

\* the main thread is inside analyze_repo, called by analyze_repos
InsideAnalyzeRepo == pc \in {"analyze_repo", "extract", "submit", "collect", "persist"}

\* C18 (sequential repositories): the entries are handled one at a time in manifest
\* order: what analyze_repo does belongs to the entry after the last finished one,
\* every entry before it was skipped or its report written, an entry is finished
\* by a skip or by the write of its report and with no task of it still queued,
\* calling or sleeping, and outside the pool of the current entry no task runs.
C18_SequentialRepositories ==
    /\ [](
          /\ InsideAnalyzeRepo =>
                /\ repo_idx < Len(repo_paths)
                /\ repo_path = repo_paths[repo_idx + 1]
          /\ ~PoolRunning =>
                \A i \in TaskIds : tasks[i].st \in {"unsubmitted", "returned", "raised"}
          /\ \A k \in 1..repo_idx :
                \/ k \in skipped
                \/ \E m \in 1..Len(write_log) : write_log[m] = <<repo_paths[k], "written">>
         )
    /\ [][
          /\ repo_idx' # repo_idx =>
                /\ repo_idx' = repo_idx + 1
                /\ \/ pc = "repos_loop" /\ (repo_idx + 1) \in skipped'
                   \/ pc = "persist" /\ write_log' = Append(write_log, <<repo_path, "written">>)
                /\ Queued \cup Busy = {}
          /\ (pc' = "analyze_repo" /\ pc # "analyze_repo") =>
                /\ pc = "repos_loop"
                /\ repo_path' = repo_paths[repo_idx + 1]
                /\ Queued \cup Busy = {}
         ]_vars

\* a batch of two entries, both analysed: the reports were written in manifest order
C18_Witness ==
    /\ pc = "done"
    /\ Len(repo_paths) = 2 /\ repo_paths[1] # repo_paths[2]
    /\ write_log = <<<<repo_paths[1], "written">>, <<repo_paths[2], "written">>>>
    /\ llm_calls >= 2

\* C19 (idempotent re-run): an artifact that exists is never changed, by the run
\* that wrote it or by a later one; and a run that follows a run ended without error
\* makes no client call, extracts nothing, writes nothing and leaves every artifact
\* as it found it.
C19_IdempotentRerun ==
    /\ [][\A r \in Repos : artifact[r].exists => artifact'[r] = artifact[r]]_vars
    /\ [](run > 1 => (llm_calls = 0 /\ extract_calls = 0 /\ write_log = <<>>))
    /\ [][run > 1 => artifact' = artifact]_vars
    /\ []((run > 1 /\ pc = "done" /\ repo_paths # <<>>) =>
             skipped = 1..Len(repo_paths))

\* the second run over a manifest of two entries has ended: it skipped both, one of
\* them with the report the first run wrote, and called the client never
C19_Witness ==
    /\ run = 2 /\ pc = "done"
    /\ Len(repo_paths) = 2 /\ skipped = {1, 2}
    /\ \E k \in 1..2 : artifact[repo_paths[k]].content.kind = "report"
    /\ llm_calls = 0

\* an expression built from identifiers, attribute accesses and calls only, to any
\* depth
RECURSIVE BuiltFromThreeShapes(_)
BuiltFromThreeShapes(e) ==
    \/ e.node = "Name"
    \/ e.node = "Attribute" /\ BuiltFromThreeShapes(e.value)
    \/ e.node = "Call" /\ BuiltFromThreeShapes(e.func)

\* C21 (recursive decorator resolution), as claimed: for every decorator built from
\* identifiers, attribute accesses and calls, at any nesting depth, that the walk has
\* come to, the resolver gives the dotted qualified name: a call resolved through its
\* callee, an attribute access as base.attribute, an identifier as itself.
C21_RecursiveResolution ==
    \A p \in 1..walk_idx :
        LET node == source_file[ast_walk(source_file)[p]]
        IN  \A m \in 1..Len(node.decorator_list) :
                LET e == node.decorator_list[m].expr
                IN  BuiltFromThreeShapes(e) => get_decorator_name(e) = QualifiedName(e)

\* C22 (single record per function): a function is returned once when some decorator
\* of it resolves to the marker, however many do, and never otherwise; the loop over
\* its decorators stops at the first that matches, so the later ones are not tested;
\* and there are never more records than function definitions.
C22_SingleRecord ==
    /\ Len(tool_functions) <= Len(source_file)
    /\ Len(examined) = walk_idx
    /\ \A p \in 1..walk_idx :
          LET k == ast_walk(source_file)[p]
              node == source_file[k]
              matching == {m \in 1..Len(node.decorator_list) :
                              is_mcp_tool_decorator(node.decorator_list[m].expr)}
              records == {r \in 1..Len(tool_functions) : tool_functions[r].name = node.name}
          IN  /\ HasToolDecorator(node) <=> matching # {}
              /\ Cardinality(records) = IF matching # {} THEN 1 ELSE 0
              /\ examined[p] = IF matching # {} THEN SetMin(matching)
                               ELSE Len(node.decorator_list)

\* a file whose one function stands under @mcp.tool() and @mcp.tool: one record, and
\* the second decorator was never tested
C22_Witness ==
    /\ pc = "extracted"
    /\ Len(source_file) = 1 /\ Len(source_file[1].decorator_list) = 2
    /\ \A m \in 1..2 : is_mcp_tool_decorator(source_file[1].decorator_list[m].expr)
    /\ Len(tool_functions) = 1
    /\ examined = <<1>>

\* the lines of a text as the parser numbers them: the parts between its newlines
RECURSIVE RawLines(_)
RawLines(s) ==
    IF s = <<>> THEN <<>>
    ELSE LET ends == {i \in 1..Len(s) : s[i] = NL}
             end == IF ends = {} THEN Len(s) + 1 ELSE SetMin(ends)
         IN  <<SubSeq(s, 1, end - 1)>> \o RawLines(SubSeq(s, end + 1, Len(s)))

\* the raw lines of the line ranges of the decorators of a node, from decorator m
\* on, one range after the other
RECURSIVE RawDecoratorLines(_, _)
RawDecoratorLines(node, m) ==
    IF m > Len(node.decorator_list) THEN <<>>
    ELSE SubSeq(RawLines(source_code), node.decorator_list[m].lineno,
                node.decorator_list[m].end_lineno)
         \o RawDecoratorLines(node, m + 1)

\* C23 (source span), as claimed: the source_code of every record is the raw lines
\* of each decorator's own line range, in source order, followed by the raw lines
\* from the line of the def through the last line of the function, joined by
\* newlines.
C23_SourceSpan ==
    \A r \in 1..Len(tool_functions) :
        LET node == source_file[tool_functions[r].name]
        IN  tool_functions[r].source_code =
                Join(RawDecoratorLines(node, 1)
                         \o SubSeq(RawLines(source_code), node.lineno, node.end_lineno),
                     NL)

\* every parameter of a def, in the order of declaration, with the text of its type
DeclaredParameters(node) ==
    LET all == node.args.posonlyargs \o node.args.args \o node.args.vararg
                  \o node.args.kwonlyargs \o node.args.kwarg
    IN  [j \in 1..Len(all) |-> [name |-> all[j].arg, type |-> TypeText(all[j].annotation)]]

\* C24 (signature), as claimed: the signature of every record lists the parameters
\* of the function in declaration order, each with the text of its annotation or
\* none, and has the text of the return annotation or none.
C24_Signature ==
    \A r \in 1..Len(tool_functions) :
        LET node == source_file[tool_functions[r].name]
        IN  /\ tool_functions[r].signature.parameters = DeclaredParameters(node)
            /\ tool_functions[r].signature.return_type = TypeText(node.returns)

\* an artifact holds a whole report: the one analyze_repos wrote, or the one an
\* earlier run left
HoldsCompleteReport(r) == artifact[r].content.kind \in {"report", "earlier run"}

\* C25 (artifact completeness), as claimed: in every state of analyze_repos, an
\* artifact that exists, and that the test of the loop therefore takes for a
\* repository already analysed, holds the complete report of the repository: no
\* failed write leaves a file behind.
C25_ArtifactCompleteness ==
    \A r \in Repos : AlreadyAnalyzed(r) => HoldsCompleteReport(r)

\* C26 (termination): under a fair scheduler and a client that answers every call,
\* analyze_repo returns at last, with every one of the N records done and one entry
\* for each in the report; no record ever takes more than three calls and two
\* waits; and once analyze_repo has returned no call is in flight and no record is
\* queued or unsubmitted.
C26_Termination ==
    /\ <>(/\ Returned /\ pc = "done"
          /\ Len(tasks) = Len(all_tools) /\ \A i \in TaskIds : Done(i)
          /\ Len(result.tools) = Len(all_tools))
    /\ [](\A i \in TaskIds :
             /\ tasks[i].calls <= max_retries
             /\ Len(tasks[i].waits) <= max_retries - 1)
    /\ [](Returned =>
             /\ \A i \in TaskIds : Done(i)
             /\ InFlight = {} /\ Queued = {} /\ Unsubmitted = {}
             /\ finished_set = {} /\ finished_futures = <<>>)

\* analyze_repo has returned the report of a repository of MaxTools records, one of
\* which took three calls and two waits and another a single call
C26_Witness ==
    /\ Returned /\ pc = "done"
    /\ Len(all_tools) = MaxTools /\ Len(result.tools) = MaxTools
    /\ \E i, j \in TaskIds :
          /\ tasks[i].calls = max_retries /\ Len(tasks[i].waits) = max_retries - 1
          /\ tasks[j].calls = 1

====
